---- MODULE Spec2Model ----
(***************************************************************************)
(* Model of evalplus/eval/__init__.py: the batch evaluator                 *)
(* (evaluate_files), the supervisor of one candidate (untrusted_check),    *)
(* the worker process (unsafe_execute) and the output comparison it makes  *)
(* for every test case.                                                    *)
(*                                                                         *)
(* Numbers.  A Python number is a record [w, u, fl]: its value is          *)
(* w + u * 1e-6 with 0 <= u < Micro, and fl says whether it is a float.    *)
(* Tolerances (atol) are integers counting units of 1e-6.                  *)
(***************************************************************************)
EXTENDS Integers, Sequences, FiniteSets, TLC

\* ------------------------------------------------------------------ bounds
MaxTests == 2
MaxFiles == 2
MaxN == 3
MaxProblems == 2

\* --------------------------------------------------------------- constants
SUCCESS == "success"
FAILED == "failed"
TIMEOUT == "timed out"

Micro == 1000000
\* atol = 1e-6, in units of 1e-6
Eps == 1
\* rtol = 1e-7 (the default of numpy.testing.assert_allclose) is 1 / RtolInv
\* per unit of 1e-6: rtol * |exp| in units of 1e-6 is |exp| / RtolInv
RtolInv == 10

\* ------------------------------------------------------------------ values
Num(w, u, fl) == [w |-> w, u |-> u, fl |-> fl]
IntV(n) == [kind |-> "scalar", xs |-> <<Num(n, 0, FALSE)>>]
FloatV(w, u) == [kind |-> "scalar", xs |-> <<Num(w, u, TRUE)>>]
ListV(xs) == [kind |-> "list", xs |-> xs]
ArrayV(xs) == [kind |-> "ndarray", xs |-> xs]
\* a one-element sequence holding a list of numbers, such as [[-2, 1]]
NestedV(xs) == [kind |-> "nested", xs |-> xs]
NoneV == [kind |-> "other", xs |-> <<>>]

AbsInt(n) == IF n < 0 THEN -n ELSE n
MaxInt(a, b) == IF a < b THEN b ELSE a

NumEq(a, b) == a.w = b.w /\ a.u = b.u

\* x ** i for integers
RECURSIVE IntPow(_, _)
IntPow(x, i) == IF i = 0 THEN 1 ELSE x * IntPow(x, i - 1)

\* sum([coeff * math.pow(x, i) for i, coeff in enumerate(xs)]), on whole numbers
RECURSIVE PolySum(_, _, _)
PolySum(xs, x, i) ==
    IF i > Len(xs) THEN 0
    ELSE xs[i].w * IntPow(x, i - 1) + PolySum(xs, x, i + 1)

_poly(xs, x) == PolySum(xs, x, 1)

\* _poly(*out, inp) evaluates only when out unpacks to one list of
\* coefficients and inp converts to a float; otherwise it raises TypeError
PolyCallable(out, inp) == out.kind = "nested" /\ inp.kind = "point"

is_floats(x) ==
    CASE x.kind = "scalar" -> x.xs[1].fl
      [] x.kind = "list" -> \A i \in 1..Len(x.xs) : x.xs[i].fl
      [] x.kind = "ndarray" -> \A i \in 1..Len(x.xs) : x.xs[i].fl
      [] OTHER -> FALSE

\* out == exp and its truth value: "true", "false", or "ambiguous" when the
\* comparison is element-wise over an array of two or more elements, whose
\* truth value raises ValueError
PyEq(out, exp) ==
    IF out.kind = "ndarray" \/ exp.kind = "ndarray"
    THEN IF MaxInt(Len(out.xs), Len(exp.xs)) >= 2 THEN "ambiguous"
         ELSE IF Len(out.xs) = 1 /\ Len(exp.xs) = 1 /\ NumEq(out.xs[1], exp.xs[1])
              THEN "true" ELSE "false"
    ELSE IF out.kind = exp.kind /\ Len(out.xs) = Len(exp.xs)
            /\ \A i \in 1..Len(out.xs) : NumEq(out.xs[i], exp.xs[i])
         THEN "true" ELSE "false"

\* |a - b| in units of 1e-6; numbers two or more apart saturate at Micro,
\* which every tolerance of the model (below 1.0) rejects as well
Dist(a, b) ==
    IF AbsInt(a.w - b.w) >= 2 THEN Micro
    ELSE AbsInt((a.w - b.w) * Micro + (a.u - b.u))

\* floor(|e|)
AbsFloor(e) == IF e.w >= 0 THEN e.w ELSE IF e.u = 0 THEN -e.w ELSE -e.w - 1

\* the comparison a purely absolute tolerance would make
IsCloseAbsolute(o, e, atol) == Dist(o, e) <= atol

\* |o - e| <= atol + rtol * |e| with rtol = 1e-7
IsClose(o, e, atol) == RtolInv * (Dist(o, e) - atol) <= AbsFloor(e)

Elem(v, i) == IF Len(v.xs) = 1 THEN v.xs[1] ELSE v.xs[i]

\* np.testing.assert_allclose(out, exp, atol=atol) does not raise
assert_allclose(out, exp, atol) ==
    /\ out.kind # "other" /\ exp.kind # "other"
    /\ Len(out.xs) = Len(exp.xs) \/ Len(out.xs) = 1 \/ Len(exp.xs) = 1
    /\ \A i \in 1..MaxInt(Len(out.xs), Len(exp.xs)) :
          IsClose(Elem(out, i), Elem(exp, i), atol)

\* the assert of the oracle for find_zero does not raise
OraclePasses(out, inp, atol) ==
    /\ PolyCallable(out, inp)
    /\ _poly(out.xs, inp.x) * Micro <= atol

\* atol as the comparison of one test case leaves it
UpgradedAtol(atol, exp) == IF atol = 0 /\ is_floats(exp) THEN Eps ELSE atol

\* The body of the inner try once fn(*inp) has returned out: ok says that no
\* assertion raised, atol is the worker's tolerance afterwards.
CaseCheck(out, exp, inp, atol, entry) ==
    LET exact_match == PyEq(out, exp)
        oracle == entry # "find_zero" \/ OraclePasses(out, inp, atol)
        a2 == IF oracle THEN UpgradedAtol(atol, exp) ELSE atol
        ok == /\ oracle
              /\ exact_match # "ambiguous"
              /\ IF exact_match = "false" /\ a2 # 0
                 THEN assert_allclose(out, exp, a2)
                 ELSE exact_match = "true"
    IN [ok |-> ok, atol |-> a2]

\* What one call of the candidate does: it raises, it exceeds the time limit
\* of the case, or it returns a value.
Raises == [t |-> "raise", out |-> NoneV]
TimesOut == [t |-> "timeout", out |-> NoneV]
Returns(o) == [t |-> "return", out |-> o]

CaseResult(b, tc, atol, entry) ==
    IF b.t = "return" THEN CaseCheck(b.out, tc.exp, tc.inp, atol, entry)
    ELSE [ok |-> FALSE, atol |-> atol]

\* except BaseException: if fast_check: raise
AbortOnFailureNever(fc) == FALSE

AbortOnFailure(fc) == fc

\* details.append(False)
RecordFailureDropped(d) == d

RecordFailure(d) == Append(d, FALSE)

AllTrue(d) == \A k \in 1..Len(d) : d[k]

\* The status untrusted_check returns, from the two shared lists as the
\* worker left them and the number of test cases.
FinalStatusNoDowngrade(res, det, n) == IF res = <<>> THEN TIMEOUT ELSE res[1]

FinalStatusDefaultFailed(res, det, n) ==
    LET first == IF res = <<>> THEN FAILED ELSE res[1]
    IN IF first = SUCCESS /\ (Len(det) # n \/ ~AllTrue(det)) THEN FAILED ELSE first

FinalStatus(res, det, n) ==
    LET first == IF res = <<>> THEN TIMEOUT ELSE res[1]
    IN IF first = SUCCESS /\ (Len(det) # n \/ ~AllTrue(det)) THEN FAILED ELSE first

\* np.array(details)
ReturnedVectorDiscarded(det) == <<>>

ReturnedVector(det) == det

\* ------------------------------------------------------------- file names
\* A file name is a sequence of characters.
RECURSIVE AfterLast(_, _)
\* x.split(sep)[-1]
AfterLast(s, sep) ==
    IF \E k \in 1..Len(s) : s[k] = sep
    THEN AfterLast(SubSeq(s, (CHOOSE k \in 1..Len(s) : s[k] = sep) + 1, Len(s)), sep)
    ELSE s

\* x.split(sep)[0]
BeforeFirst(s, sep) ==
    IF \E k \in 1..Len(s) : s[k] = sep
    THEN SubSeq(s, 1, (CHOOSE k \in 1..Len(s) :
                          s[k] = sep /\ \A j \in 1..(k - 1) : s[j] # sep) - 1)
    ELSE s

Digits == <<"0", "1", "2", "3", "4", "5", "6", "7", "8", "9">>
DigitVal(c) == (CHOOSE d \in 1..10 : Digits[d] = c) - 1
IsDigits(s) == s # <<>> /\ \A k \in 1..Len(s) : \E d \in 1..10 : Digits[d] = s[k]

RECURSIVE int(_)
int(s) == IF s = <<>> THEN 0
          ELSE 10 * int(SubSeq(s, 1, Len(s) - 1)) + DigitVal(s[Len(s)])

Stem(x) == BeforeFirst(AfterLast(x, "/"), ".")

\* a key that orders by the first character of the id only
SortKeyLeadingDigit(x) == DigitVal(Stem(x)[1])

\* key=lambda x: int(x.split("/")[-1].split(".")[0])
SortKey(x) == int(Stem(x))

RECURSIVE InsertSorted(_, _)
InsertSorted(x, s) ==
    IF s = <<>> THEN <<x>>
    ELSE IF SortKey(x) < SortKey(Head(s)) THEN <<x>> \o s
         ELSE <<Head(s)>> \o InsertSorted(x, Tail(s))

RECURSIVE SortInto(_, _)
SortInto(fs, acc) ==
    IF fs = <<>> THEN acc ELSE SortInto(Tail(fs), InsertSorted(Head(fs), acc))

\* sorted(files, key=...): stable
sorted(fs) == SortInto(fs, <<>>)

\* ------------------------------------------------------ estimate_pass_at_k
\* a float as the exact fraction p / q with q > 0; 1.0 is Frac(1, 1)
Frac(p, q) == [p |-> p, q |-> q]

\* np.prod(1.0 - k / np.arange(lo, hi + 1)): the product of (j - k) / j
\* over lo..hi, 1.0 for an empty range
ProdRange(lo, hi, k) ==
    LET RECURSIVE P(_)
        P(j) == IF j < lo
                THEN Frac(1, 1)
                ELSE LET r == P(j - 1) IN Frac(r.p * (j - k), r.q * j)
    IN P(hi)

\* 1.0 - f
Complement(f) == Frac(f.q - f.p, f.q)

estimatorNoEarlyReturn(n, c, k) == Complement(ProdRange(n - c + 1, n, k))

estimatorShortRange(n, c, k) ==
    IF n - c < k
    THEN Frac(1, 1)
    ELSE Complement(ProdRange(n - c + 1, n - 1, k))

estimatorProduct(n, c, k) ==
    IF n - c < k THEN Frac(1, 1) ELSE ProdRange(n - c + 1, n, k)

\* def estimator(n, c, k)
estimator(n, c, k) ==
    IF n - c < k
    THEN Frac(1, 1)
    ELSE Complement(ProdRange(n - c + 1, n, k))

IntSamples(n) == [kind |-> "int", n |-> n, ns |-> <<>>]
SeqSamples(ns) == [kind |-> "seq", n |-> 0, ns |-> ns]

LengthsAgreeUnchecked(ns, nc) == TRUE

\* assert len(num_samples) == len(num_correct)
LengthsAgree(ns, nc) == Len(ns) = Len(nc)

\* itertools.repeat(num_samples, len(num_correct)) or iter(num_samples)
num_samples_it(ns, nc) ==
    IF ns.kind = "int" THEN [j \in 1..Len(nc) |-> ns.n] ELSE ns.ns

\* zip(num_samples_it, num_correct) stops with the shorter of the two
ZipLen(ns, nc) ==
    IF Len(num_samples_it(ns, nc)) <= Len(nc)
    THEN Len(num_samples_it(ns, nc))
    ELSE Len(nc)

\* ------------------------------------------------------------------- state
VARIABLES
    files,        \* evaluate_files: the list of candidate files as given
    tests,        \* inputs and expected, zipped: a sequence of [inp, exp]
    entry_point,
    atol0,        \* the declared atol, in units of 1e-6
    fast_check,
    ref_time,     \* the reference time of every test case, in units of 0.01 s
    bpc,          \* evaluate_files: "start", "loop", "done", "error"
    queue,        \* files after sorted()
    idx,          \* index in queue of the file of the current iteration
    ret,          \* the list evaluate_files returns: <<stat, det>> per file
    spc,          \* untrusted_check: "idle", "join", "check1", "check2",
                  \* "close", "collect"
    clock,        \* the time p.join has waited, in units of 0.01 s
    result,       \* manager.list() of statuses
    details,      \* manager.list() of per-case outcomes
    wpc,          \* unsafe_execute: "none", "spawned", "guard", "exec",
                  \* "loop", "except", "restore", "teardown", "exited", "dead"
    i,            \* index of the next test case
    watol,        \* the worker's local atol
    scratch,      \* the temporary directory of the worker exists
    guarded,      \* rmtree, rmdir and chdir are disabled in the worker
    run,          \* history of the current candidate (not program state)
    hist,         \* history of the candidates collected so far
    last,         \* the most recent test case executed (not program state)
    epc,          \* estimate_pass_at_k: "idle", "call", "zip", "returned",
                  \* "raised"
    num_samples,  \* [kind, n, ns]: the int n, or the sequence ns
    num_correct,
    k_arg,        \* the argument k
    estimates     \* the estimates computed so far

config == <<files, tests, entry_point, atol0, fast_check, ref_time>>
batch == <<bpc, queue, idx, ret>>
shared == <<result, details>>
worker == <<wpc, i, watol, scratch, guarded>>
ghost == <<run, hist, last>>
estimate == <<epc, num_samples, num_correct, k_arg, estimates>>
vars == <<config, batch, spc, clock, shared, worker, ghost, estimate>>

AliveNever == FALSE

\* p.is_alive(), and the condition p.join waits on
Alive == wpc \notin {"none", "exited", "dead"}

NoRun == [file |-> <<>>, loaded |-> FALSE, loadfailed |-> FALSE,
          outcomes |-> <<>>, recorded |-> "none", terminated |-> FALSE,
          killed |-> FALSE]
Args == [kind |-> "args", x |-> 0]
Point(x) == [kind |-> "point", x |-> x]
NoCase == [b |-> Raises, tc |-> [inp |-> Args, exp |-> NoneV], n |-> 0,
           atol |-> 0, ok |-> FALSE]

\* ------------------------------------------------------ evaluate_files
\* ret = []; files = sorted(files, key=...)
Sort ==
    /\ bpc = "start"
    /\ queue' = sorted(files)
    /\ idx' = 1
    /\ bpc' = "loop"
    /\ UNCHANGED <<config, estimate, clock, ret, spc, shared, worker, ghost>>

\* for file in files: code = open(file).read(); untrusted_check(...) up to
\* p.start(): two fresh manager lists and a new worker process
Start ==
    /\ bpc = "loop" /\ spc = "idle" /\ idx <= Len(queue)
    /\ result' = <<>>
    /\ details' = <<>>
    /\ wpc' = "spawned"
    /\ i' = 1
    /\ watol' = atol0
    /\ scratch' = FALSE
    /\ guarded' = FALSE
    /\ spc' = "join"
    /\ run' = [NoRun EXCEPT !.file = queue[idx]]
    /\ last' = NoCase
    /\ clock' = 0
    /\ UNCHANGED <<config, estimate, batch, hist>>

\* return ret
Finish ==
    /\ bpc = "loop" /\ spc = "idle" /\ idx > Len(queue)
    /\ bpc' = "done"
    /\ UNCHANGED <<config, estimate, clock,
                   queue, idx, ret, spc, shared, worker, ghost>>

\* ------------------------------------------------------ unsafe_execute
\* create_tempdir(): a context manager that makes a temporary directory and
\* enters it, and removes it when the with block is left
create_tempdir(phase) == phase = "enter"

\* reliability_guard(): disables shutil.rmtree, os.rmdir and os.chdir, with
\* other operations, by setting them to None
reliability_guard(g) == TRUE

\* with create_tempdir(): the directory is made and entered
WorkerEnter ==
    /\ wpc = "spawned"
    /\ scratch' = create_tempdir("enter")
    /\ wpc' = "guard"
    /\ UNCHANGED <<config, estimate, clock,
                   batch, spc, shared, i, watol, guarded, ghost>>

WorkerGuardSkipped ==
    /\ wpc = "guard"
    /\ wpc' = "exec"
    /\ UNCHANGED <<config, estimate, clock,
                   batch, spc, shared, i, watol, scratch, guarded, ghost>>

\* rmtree, rmdir, chdir are saved; reliability_guard(...)
WorkerGuard ==
    /\ wpc = "guard"
    /\ guarded' = reliability_guard(guarded)
    /\ wpc' = "exec"
    /\ UNCHANGED <<config, estimate, clock,
                   batch, spc, shared, i, watol, scratch, ghost>>

\* exec(code, exec_globals); fn = exec_globals[entry_point]: the candidate
\* loads and defines the entry point, or an exception leaves the outer try
AfterLoadAlwaysLoop(loads) == "loop"

AfterLoad(loads) == IF loads THEN "loop" ELSE "except"

WorkerExec ==
    /\ wpc = "exec"
    /\ \E loads \in BOOLEAN :
          /\ wpc' = AfterLoad(loads)
          /\ run' = [run EXCEPT !.loaded = loads, !.loadfailed = ~loads]
    /\ UNCHANGED <<config, estimate, clock,
                   batch, spc, shared, i, watol, scratch, guarded,
                   hist, last>>

\* the outputs a candidate is given to return for a test case
Bump(v, du) ==
    [v EXCEPT !.xs[Len(v.xs)] = Num(@.w, @.u + du, TRUE)]
Outs(exp) ==
    IF exp.kind = "nested"
    THEN {exp, NestedV(<<Num(1, 0, FALSE)>>), NoneV}
    ELSE {exp, Bump(exp, 1), Bump(exp, 1000), NoneV}
         \cup (IF exp.kind = "ndarray" THEN {ListV(exp.xs)} ELSE {})
Behaviours(tc) == {Raises, TimesOut} \cup {Returns(o) : o \in Outs(tc.exp)}

\* one iteration of for i, inp in enumerate(inputs)
WorkerCase ==
    /\ wpc = "loop" /\ i <= Len(tests)
    /\ \E b \in Behaviours(tests[i]) :
          LET res == CaseResult(b, tests[i], watol, entry_point)
          IN /\ watol' = res.atol
             /\ IF res.ok
                THEN /\ details' = Append(details, TRUE)
                     /\ i' = i + 1
                     /\ wpc' = wpc
                ELSE IF AbortOnFailure(fast_check)
                     THEN /\ wpc' = "except"
                          /\ UNCHANGED <<details, i>>
                     ELSE /\ details' = RecordFailure(details)
                          /\ i' = i + 1
                          /\ wpc' = wpc
             /\ run' = [run EXCEPT !.outcomes = Append(@, res.ok)]
             /\ last' = [b |-> b, tc |-> tests[i], n |-> i, atol |-> watol,
                         ok |-> res.ok]
    /\ UNCHANGED <<config, estimate, clock,
                   batch, spc, result, scratch, guarded, hist>>

\* result.append(SUCCESS)
WorkerSuccess ==
    /\ wpc = "loop" /\ i > Len(tests)
    /\ result' = Append(result, SUCCESS)
    /\ run' = [run EXCEPT !.recorded = SUCCESS]
    /\ wpc' = "restore"
    /\ UNCHANGED <<config, estimate, clock,
                   batch, spc, details, i, watol, scratch, guarded,
                   hist, last>>

\* except BaseException: result.append(FAILED)
WorkerExcept ==
    /\ wpc = "except"
    /\ result' = Append(result, FAILED)
    /\ run' = [run EXCEPT !.recorded = FAILED]
    /\ wpc' = "restore"
    /\ UNCHANGED <<config, estimate, clock,
                   batch, spc, details, i, watol, scratch, guarded,
                   hist, last>>

\* shutil.rmtree = rmtree; os.rmdir = rmdir; os.chdir = chdir
WorkerRestore ==
    /\ wpc = "restore"
    /\ guarded' = FALSE
    /\ wpc' = "teardown"
    /\ UNCHANGED <<config, estimate, clock,
                   batch, spc, shared, i, watol, scratch, ghost>>

\* the exit of create_tempdir(), then the process ends
WorkerTeardown ==
    /\ wpc = "teardown"
    /\ scratch' = create_tempdir("exit")
    /\ wpc' = "exited"
    /\ UNCHANGED <<config, estimate, clock,
                   batch, spc, shared, i, watol, guarded, ghost>>

\* the process dies while candidate code runs (a crash of the interpreter,
\* os._exit): nothing after it runs
WorkerCrash ==
    /\ wpc \in {"exec", "loop"}
    /\ wpc' = "dead"
    /\ UNCHANGED <<config, estimate, clock,
                   batch, spc, shared, i, watol, scratch, guarded,
                   ghost>>

\* ------------------------------------------------------ untrusted_check
\* sum(ref_time)
SumTimes(rt) ==
    LET RECURSIVE S(_)
        S(j) == IF j = 0 THEN 0 ELSE rt[j] + S(j - 1)
    IN S(Len(rt))

MinInt(a, b) == IF a <= b THEN a ELSE b

\* timeout = min(5, sum(ref_time) + 1)
timeout(rt) == MinInt(500, SumTimes(rt) + 100)

JoinWaitNoGrace(rt) == timeout(rt)

\* the timeout of p.join(timeout=timeout + 1)
JoinWait(rt) == timeout(rt) + 100

\* p.join(timeout=timeout + 1) returns because the worker has ended
JoinDone ==
    /\ spc = "join" /\ ~Alive
    /\ spc' = "check1"
    /\ UNCHANGED <<config, estimate, clock, batch, shared, worker, ghost>>

\* the worker still runs and the time p.join waits goes by
WaitElapses ==
    /\ spc = "join" /\ Alive /\ clock < JoinWait(ref_time)
    /\ clock' = JoinWait(ref_time)
    /\ UNCHANGED <<config, estimate, batch, spc, shared, worker, ghost>>

\* p.join(timeout=timeout + 1) returns because the time is over
JoinTimeout ==
    /\ spc = "join" /\ Alive /\ clock >= JoinWait(ref_time)
    /\ spc' = "check1"
    /\ UNCHANGED <<config, estimate, clock, batch, shared, worker, ghost>>

\* p.terminate(): the default action of SIGTERM ends the process; candidate
\* code that handles or ignores the signal keeps it running
AfterTerminate(w) == {w, "dead"}

\* p.kill(): SIGKILL cannot be handled
AfterKillSurvives(w) == w

AfterKill(w) == "dead"

\* if p.is_alive(): p.terminate(); time.sleep(0.1)
Check1 ==
    /\ spc = "check1"
    /\ IF Alive
       THEN /\ wpc' \in AfterTerminate(wpc)
            /\ run' = [run EXCEPT !.terminated = TRUE]
       ELSE UNCHANGED <<wpc, run>>
    /\ spc' = "check2"
    /\ UNCHANGED <<config, estimate, clock,
                   batch, shared, i, watol, scratch, guarded, hist,
                   last>>

\* if p.is_alive(): p.kill(); time.sleep(0.1)
Check2 ==
    /\ spc = "check2"
    /\ IF Alive
       THEN /\ wpc' = AfterKill(wpc)
            /\ run' = [run EXCEPT !.killed = TRUE]
       ELSE UNCHANGED <<wpc, run>>
    /\ spc' = "close"
    /\ UNCHANGED <<config, estimate, clock,
                   batch, shared, i, watol, scratch, guarded, hist,
                   last>>

\* p.close(): ValueError when the process is still running, which nothing
\* in evaluate_files catches
Close ==
    /\ spc = "close"
    /\ IF Alive
       THEN bpc' = "error" /\ spc' = "idle"
       ELSE bpc' = bpc /\ spc' = "collect"
    /\ UNCHANGED <<config, estimate, clock,
                   queue, idx, ret, shared, worker, ghost>>

\* if not result: ...; the downgrade of success; return; and in
\* evaluate_files: ret.append((stat, det.tolist()))
Collect ==
    /\ spc = "collect"
    /\ ret' = Append(ret, <<FinalStatus(result, details, Len(tests)),
                          ReturnedVector(details)>>)
    /\ hist' = Append(hist, run)
    /\ idx' = idx + 1
    /\ spc' = "idle"
    /\ wpc' = "none"
    /\ clock' = 0
    /\ UNCHANGED <<config, estimate,
                   bpc, queue, shared, i, watol, scratch, guarded,
                   run, last>>

Next ==
    \/ Sort \/ Start \/ Finish
    \/ WorkerEnter \/ WorkerGuard \/ WorkerExec \/ WorkerCase
    \/ WorkerSuccess \/ WorkerExcept \/ WorkerRestore \/ WorkerTeardown
    \/ WorkerCrash
    \/ JoinDone \/ WaitElapses \/ JoinTimeout \/ Check1 \/ Check2 \/ Close \/ Collect

\* ------------------------------------------------------------ initial states
F1 == <<"1", ".", "p", "y">>
F2 == <<"2", ".", "p", "y">>
F10 == <<"1", "0", ".", "p", "y">>
FD1 == <<"d", "/", "1", ".", "p", "y">>
Names == {F1, F2, F10, FD1}

One == Num(1, 0, TRUE)
Two == Num(2, 0, TRUE)
TestDomain ==
    { [inp |-> Args, exp |-> IntV(3)],
      [inp |-> Args, exp |-> FloatV(1, 0)],
      [inp |-> Args, exp |-> FloatV(20000, 0)],
      [inp |-> Args, exp |-> ListV(<<One, Two>>)],
      [inp |-> Args, exp |-> ArrayV(<<One, Two>>)],
      [inp |-> Point(2), exp |-> NestedV(<<Num(-1, 0, FALSE)>>)],
      [inp |-> Point(2), exp |-> NestedV(<<Num(-2, 0, FALSE), Num(1, 0, FALSE)>>)] }

SeqsUpTo(S, n) == UNION {[1..k -> S] : k \in 0..n}
Distinct(s) == \A j, k \in 1..Len(s) : j # k => s[j] # s[k]

\* estimate_pass_at_k is not called
NoEstimate ==
    /\ epc = "idle"
    /\ num_samples = IntSamples(0)
    /\ num_correct = <<>>
    /\ k_arg = 0
    /\ estimates = <<>>

\* a reference time of zero for every test case
NoTimes == [j \in 1..Len(tests) |-> 0]

\* isinstance(num_samples, int), and the assert on the lengths if not
EstimateIter ==
    /\ epc = "call"
    /\ epc' = IF num_samples.kind = "int"
                 \/ LengthsAgree(num_samples.ns, num_correct)
              THEN "zip"
              ELSE "raised"
    /\ UNCHANGED <<config, batch, spc, clock, shared, worker, ghost,
                   num_samples, num_correct, k_arg, estimates>>

\* one element of [estimator(int(n), int(c), k) for n, c in zip(...)]
EstimateProblem ==
    /\ epc = "zip"
    /\ Len(estimates) < ZipLen(num_samples, num_correct)
    /\ LET j == Len(estimates) + 1
       IN estimates' =
             Append(estimates,
                    estimator(num_samples_it(num_samples, num_correct)[j],
                              num_correct[j], k_arg))
    /\ UNCHANGED <<config, batch, spc, clock, shared, worker, ghost,
                   epc, num_samples, num_correct, k_arg>>

\* return np.array([...])
EstimateReturn ==
    /\ epc = "zip"
    /\ Len(estimates) = ZipLen(num_samples, num_correct)
    /\ epc' = "returned"
    /\ UNCHANGED <<config, batch, spc, clock, shared, worker, ghost,
                   num_samples, num_correct, k_arg, estimates>>

EstimateNext == EstimateIter \/ EstimateProblem \/ EstimateReturn

\* every file name starts its basename with a numeric id, as int() requires
InitState ==
    /\ \A k \in 1..Len(files) : IsDigits(Stem(files[k]))
    /\ bpc = "start" /\ queue = <<>> /\ idx = 1 /\ ret = <<>>
    /\ spc = "idle" /\ clock = 0 /\ result = <<>> /\ details = <<>>
    /\ wpc = "none" /\ i = 1 /\ watol = atol0
    /\ scratch = FALSE /\ guarded = FALSE
    /\ run = NoRun /\ hist = <<>> /\ last = NoCase

\* one candidate against every list of test cases
Init ==
    /\ files = <<F1>>
    /\ tests \in SeqsUpTo(TestDomain, MaxTests)
    /\ entry_point \in {"find_zero", "solve"}
    /\ atol0 \in {0, 1000}
    /\ fast_check \in BOOLEAN
    /\ ref_time = NoTimes
    /\ InitState
    /\ NoEstimate

Spec == Init /\ [][Next]_vars

\* lists of files with distinct ids against one test case
BatchInit ==
    /\ files \in {s \in SeqsUpTo({F1, F2, F10}, MaxFiles) :
                     s # <<>> /\ Distinct(s)}
    /\ tests = <<[inp |-> Args, exp |-> IntV(3)]>>
    /\ entry_point = "solve"
    /\ atol0 = 0
    /\ fast_check = FALSE
    /\ ref_time = NoTimes
    /\ InitState
    /\ NoEstimate

BatchSpec == BatchInit /\ [][Next]_vars

\* The supervisor is one sequential thread whose only wait, p.join, is
\* bounded by its timeout: it always takes its next step.
Supervisor ==
    Sort \/ Start \/ Finish \/ JoinDone \/ WaitElapses \/ JoinTimeout
    \/ Check1 \/ Check2 \/ Close \/ Collect

FairBatchSpec == BatchSpec /\ WF_vars(Supervisor)

\* every list of distinct files, two of them with the same id
SortInit ==
    /\ files \in {s \in SeqsUpTo(Names, MaxFiles) : s # <<>> /\ Distinct(s)}
    /\ tests = <<[inp |-> Args, exp |-> IntV(3)]>>
    /\ entry_point = "solve"
    /\ atol0 = 0
    /\ fast_check = FALSE
    /\ ref_time = NoTimes
    /\ InitState
    /\ NoEstimate

SortSpec == SortInit /\ [][Next]_vars

\* one candidate against test cases of every reference time: 0 s, 1.5 s
\* and 4.5 s, so that sum(ref_time) + 1 falls on both sides of 5 s
TimedInit ==
    /\ files = <<F1>>
    /\ tests \in SeqsUpTo({[inp |-> Args, exp |-> IntV(3)]}, MaxTests)
    /\ entry_point = "solve"
    /\ atol0 = 0
    /\ fast_check \in BOOLEAN
    /\ ref_time \in [1..Len(tests) -> {0, 150, 450}]
    /\ InitState
    /\ NoEstimate

TimedSpec == TimedInit /\ [][Next]_vars

\* every call of estimate_pass_at_k for up to MaxProblems problems of up
\* to MaxN samples, no problem with more correct samples than samples
EstimateInit ==
    /\ files = <<F1>>
    /\ tests = <<>>
    /\ entry_point = "solve"
    /\ atol0 = 0
    /\ fast_check = FALSE
    /\ ref_time = <<>>
    /\ InitState
    /\ epc = "call"
    /\ num_samples \in
          {IntSamples(n) : n \in 0..MaxN}
          \cup {SeqSamples(ns) : ns \in SeqsUpTo(0..MaxN, MaxProblems)}
    /\ num_correct \in SeqsUpTo(0..MaxN, MaxProblems)
    /\ \A j \in 1..ZipLen(num_samples, num_correct) :
          num_correct[j] <= num_samples_it(num_samples, num_correct)[j]
    /\ k_arg \in 0..(MaxN + 1)
    /\ estimates = <<>>

EstimateSpec == EstimateInit /\ [][EstimateNext]_vars

\* ------------------------------------------------------------------ claims
IsTrue(b) == b
\* the outcomes a worker with history h has appended to details
Kept(h) == IF fast_check THEN SelectSeq(h.outcomes, IsTrue) ELSE h.outcomes
HasFalse(d) == \E k \in 1..Len(d) : ~d[k]
Collected == 1..Len(ret)

\* C1: a returned status of success never comes with an outcome vector that
\* holds a false entry or has fewer entries than there are test cases.
C1_SuccessConsistent ==
    \A j \in Collected :
        ret[j][1] = SUCCESS =>
            /\ Len(ret[j][2]) = Len(tests)
            /\ ~HasFalse(ret[j][2])

\* the worker recorded success after a failed case, and the status returned
\* is failed
C1_Witness ==
    \E j \in Collected :
        /\ hist[j].recorded = SUCCESS
        /\ HasFalse(ret[j][2])
        /\ ret[j][1] = FAILED

\* C2: without fast_check a failed case is recorded as false and the loop
\* goes on: while the loop runs details holds the outcome of every case so
\* far, and once a worker that loaded the candidate has recorded its status
\* the vector returned has one entry per test case, entry k the outcome of
\* case k, with status failed if any entry is false.
C2_FailureRecordedAndContinues ==
    ~fast_check =>
        /\ (wpc = "loop" => details = run.outcomes /\ Len(details) = i - 1)
        /\ (run.loaded => wpc # "except")
        /\ \A j \in Collected :
              (hist[j].loaded /\ hist[j].recorded # "none") =>
                  /\ Len(ret[j][2]) = Len(tests)
                  /\ \A k \in 1..Len(tests) :
                        ret[j][2][k] = hist[j].outcomes[k]
                  /\ (HasFalse(ret[j][2]) => ret[j][1] = FAILED)

\* the first of two cases failed, the second was still run and passed
C2_Witness ==
    /\ ~fast_check
    /\ \E j \in Collected :
          /\ hist[j].outcomes = <<FALSE, TRUE>>
          /\ ret[j] = <<FAILED, <<FALSE, TRUE>>>>

C4_TimeoutIffNoStatus ==
    \A j \in Collected :
        /\ ret[j][1] \in {SUCCESS, FAILED, TIMEOUT}
        /\ (ret[j][1] = TIMEOUT <=> hist[j].recorded = "none")

\* a worker killed before it recorded a status
C4_Witness ==
    \E j \in Collected :
        /\ hist[j].killed
        /\ hist[j].recorded = "none"
        /\ ret[j][1] = TIMEOUT

\* C5 as stated: whenever the status returned is timed out, the outcome
\* vector returned is empty.
C5_TimeoutVectorEmpty ==
    \A j \in Collected : ret[j][1] = TIMEOUT => ret[j][2] = <<>>

\* C5 amended: whenever the status returned is timed out, the outcome vector
\* returned holds the outcomes the worker recorded before it ended, in order.
C5_TimeoutVectorKept ==
    \A j \in Collected : ret[j][1] = TIMEOUT => ret[j][2] = Kept(hist[j])

\* a timed out candidate returned with a recorded outcome
C5_Witness ==
    \E j \in Collected :
        /\ ret[j][1] = TIMEOUT
        /\ hist[j].terminated
        /\ ret[j][2] # <<>>

\* the result of a candidate as its own history h determines it
OwnResult(h) ==
    <<IF h.recorded = "none" THEN TIMEOUT
      ELSE IF h.recorded = SUCCESS /\ Len(h.outcomes) = Len(tests)
              /\ ~HasFalse(h.outcomes)
           THEN SUCCESS ELSE FAILED,
      Kept(h)>>

\* C6: evaluate_files always returns, with one result per file, each result
\* the one the candidate's own run determines, whatever the candidates did.
C6_BatchCompletes ==
    /\ <>(bpc = "done")
    /\ [](bpc # "error")
    /\ [](bpc = "done" =>
            /\ Len(ret) = Len(files)
            /\ \A j \in Collected :
                  /\ hist[j].file = queue[j]
                  /\ ret[j] = OwnResult(hist[j]))

\* a candidate that was killed at the deadline, then one that succeeded
C6_Witness ==
    /\ bpc = "done"
    /\ Len(ret) = 2
    /\ hist[1].killed /\ ret[1][1] = TIMEOUT
    /\ ret[2][1] = SUCCESS

\* the numeric id at the start of the basename of each file of the model
IdOf(f) ==
    CASE f = F1 -> 1
      [] f = F2 -> 2
      [] f = F10 -> 10
      [] f = FD1 -> 1

Perms(n) == {p \in [1..n -> 1..n] : \A a, b \in 1..n : a # b => p[a] # p[b]}
Permuted(fs, p) == [k \in 1..Len(fs) |-> fs[p[k]]]
Pos(fs, f) == CHOOSE k \in 1..Len(fs) : fs[k] = f
Sorted == bpc \in {"loop", "done"}

\* C7 as stated: the files are evaluated in ascending order of their numeric
\* ids, and that order is the same for every permutation of the list given.
C7_OrderSameForEveryPermutation ==
    bpc = "done" =>
        /\ \A j, k \in 1..Len(queue) : j < k => IdOf(queue[j]) <= IdOf(queue[k])
        /\ \A p \in Perms(Len(files)) : sorted(Permuted(files, p)) = queue

\* C7 amended: the files are evaluated, and their results returned, in
\* ascending order of their numeric ids, files with the same id in the order
\* given; the order is the same for every permutation of a list whose ids
\* are pairwise distinct.
C7_NumericOrder ==
    Sorted =>
        /\ Len(queue) = Len(files)
        /\ \A k \in 1..Len(files) : \E j \in 1..Len(queue) : queue[j] = files[k]
        /\ \A j, k \in 1..Len(queue) :
              j < k =>
                  /\ IdOf(queue[j]) <= IdOf(queue[k])
                  /\ IdOf(queue[j]) = IdOf(queue[k]) =>
                        Pos(files, queue[j]) < Pos(files, queue[k])
        /\ \A j \in Collected : hist[j].file = queue[j]
        /\ bpc = "done" =>
              /\ Len(ret) = Len(queue)
              /\ (\A j, k \in 1..Len(files) :
                      j # k => IdOf(files[j]) # IdOf(files[k])) =>
                    \A p \in Perms(Len(files)) :
                        sorted(Permuted(files, p)) = queue

\* 10.py given before 2.py: the result of 2.py is returned first
C7_Witness ==
    /\ bpc = "done"
    /\ files = <<F10, F2>>
    /\ Len(ret) = 2
    /\ hist[1].file = F2 /\ hist[2].file = F10

\* the candidate returned an output for the most recent test case
Returned == last.n > 0 /\ last.b.t = "return"
\* the value of the polynomial of the oracle for the most recent test case
LastPoly == _poly(last.b.out.xs, last.tc.inp.x)
\* out and exp are the same value: same shape, equal elements
StrictlyEqual(out, exp) ==
    /\ out.kind = exp.kind
    /\ Len(out.xs) = Len(exp.xs)
    /\ \A k \in 1..Len(out.xs) : NumEq(out.xs[k], exp.xs[k])

\* C8: for find_zero a test case is recorded true only if the value of the
\* polynomial is within the tolerance of zero, on either side.
C8_OracleWithinTolerance ==
    (Returned /\ entry_point = "find_zero" /\ last.ok) =>
        /\ PolyCallable(last.b.out, last.tc.inp)
        /\ AbsInt(LastPoly) * Micro <= last.atol

\* C9: for an entry point other than find_zero, a test case whose output
\* equals the expected output is recorded true, whatever the tolerance.
C9_ExactMatchPasses ==
    (Returned /\ entry_point # "find_zero"
       /\ StrictlyEqual(last.b.out, last.tc.exp)) => last.ok

\* a float expected output under declared tolerance 0, and a number returned
\* that is not equal to it
FloatCase ==
    /\ Returned
    /\ entry_point # "find_zero"
    /\ atol0 = 0
    /\ last.tc.exp.kind = "scalar" /\ last.tc.exp.xs[1].fl
    /\ last.b.out.kind = "scalar"
    /\ ~NumEq(last.b.out.xs[1], last.tc.exp.xs[1])
LastDist == Dist(last.b.out.xs[1], last.tc.exp.xs[1])

\* C10 as stated: such an output passes if it is within 1e-6 of the expected
\* value and fails if it is 1e-3 away, whatever the expected value.
C10_AbsoluteTolerance ==
    FloatCase =>
        /\ LastDist <= 1 => last.ok
        /\ LastDist = 1000 => ~last.ok

\* C10 amended: such an output is compared with tolerance
\* 1e-6 + 1e-7 * |expected|: within 1e-6 it always passes, and 1e-3 away it
\* fails when |expected| is below 9990 and passes when |expected| is above.
C10_AbsolutePlusRelativeTolerance ==
    FloatCase =>
        /\ LastDist <= 1 => last.ok
        /\ (LastDist = 1000 /\ AbsFloor(last.tc.exp.xs[1]) < 9990) => ~last.ok
        /\ (LastDist = 1000 /\ AbsFloor(last.tc.exp.xs[1]) > 9990) => last.ok

\* 20000.001 returned for 20000.0 is recorded true
C10_Witness ==
    /\ FloatCase
    /\ last.tc.exp = FloatV(20000, 0)
    /\ LastDist = 1000
    /\ last.ok
    /\ details # <<>> /\ details[Len(details)]

\* ---------------------------------------------------------------- C11
\* the number of samples and of correct samples of problem j
SamplesOf(j) == num_samples_it(num_samples, num_correct)[j]
CorrectOf(j) == num_correct[j]

\* C11: a problem with n - c < k gets the estimate 1.0, exactly.
C11_FewerIncorrectThanDraws ==
    \A j \in 1..Len(estimates) :
       SamplesOf(j) - CorrectOf(j) < k_arg => estimates[j] = Frac(1, 1)

\* a problem with k > n has been estimated
C11_Witness ==
    /\ epc = "returned"
    /\ \E j \in 1..Len(estimates) :
          /\ k_arg > SamplesOf(j)
          /\ estimates[j] = Frac(1, 1)

\* ---------------------------------------------------------------- C12
\* the binomial coefficient, by Pascal's rule
RECURSIVE Binomial(_, _)
Binomial(a, b) ==
    IF b = 0 THEN 1
    ELSE IF a = 0 THEN 0
    ELSE Binomial(a - 1, b - 1) + Binomial(a - 1, b)

\* C12: for n >= c >= 0 and 0 <= k <= n the estimate of a problem equals
\* 1 - C(n - c, k) / C(n, k) in exact arithmetic, lies in [0, 1], and is
\* 1.0 when c = n and k >= 1.
C12_EqualsBinomialForm ==
    \A j \in 1..Len(estimates) :
       LET n == SamplesOf(j)
           c == CorrectOf(j)
           e == estimates[j]
       IN (c <= n /\ k_arg <= n) =>
             /\ e.p * Binomial(n, k_arg)
                   = e.q * (Binomial(n, k_arg) - Binomial(n - c, k_arg))
             /\ 0 <= e.p /\ e.p <= e.q
             /\ (c = n /\ k_arg >= 1) => e.p = e.q

\* a problem estimated through the product, strictly between 0 and 1
C12_Witness ==
    /\ epc = "returned"
    /\ \E j \in 1..Len(estimates) :
          /\ CorrectOf(j) > 0
          /\ k_arg >= 1
          /\ SamplesOf(j) - CorrectOf(j) >= k_arg
          /\ 0 < estimates[j].p /\ estimates[j].p < estimates[j].q

\* ---------------------------------------------------------------- C13
\* e <= f for two fractions
FracLeq(e, f) == e.p * f.q <= f.p * e.q

\* C13: for the same n and k, a problem with no fewer correct samples
\* than another gets no smaller an estimate.
C13_MonotoneInCorrect ==
    \A j1, j2 \in 1..Len(estimates) :
       (/\ SamplesOf(j1) = SamplesOf(j2)
        /\ CorrectOf(j1) <= CorrectOf(j2)
        /\ CorrectOf(j2) <= SamplesOf(j2))
       => FracLeq(estimates[j1], estimates[j2])

\* two problems of the same n, the one with more correct samples
\* estimated strictly higher
C13_Witness ==
    /\ epc = "returned"
    /\ \E j1, j2 \in 1..Len(estimates) :
          /\ SamplesOf(j1) = SamplesOf(j2)
          /\ CorrectOf(j1) < CorrectOf(j2)
          /\ FracLeq(estimates[j1], estimates[j2])
          /\ ~FracLeq(estimates[j2], estimates[j1])

\* ---------------------------------------------------------------- C14
\* num_samples is a sequence of another length than num_correct
Mismatch ==
    num_samples.kind = "seq" /\ Len(num_samples.ns) # Len(num_correct)

\* the number of samples given for problem j
GivenSamples(j) ==
    IF num_samples.kind = "int" THEN num_samples.n ELSE num_samples.ns[j]

\* C14: the call returns one estimate per entry of num_correct, in its
\* order, an int num_samples standing for every problem; with a sequence
\* num_samples of another length it raises at once and no estimate is
\* computed.
C14_OneEstimatePerProblem ==
    /\ epc = "returned" =>
          /\ Len(estimates) = Len(num_correct)
          /\ \A j \in 1..Len(num_correct) :
                estimates[j] = estimator(GivenSamples(j), num_correct[j],
                                         k_arg)
    /\ Mismatch => epc \in {"call", "raised"} /\ estimates = <<>>
    /\ epc = "raised" => Mismatch

\* an int num_samples has been used for two problems
C14_Witness ==
    /\ epc = "returned"
    /\ num_samples.kind = "int"
    /\ Len(num_correct) = 2
    /\ Len(estimates) = 2
    /\ num_correct[1] # num_correct[2]

\* ---------------------------------------------------------------- C15
\* C15: the outcome of a test case whose call returned is the one its own
\* output, expected output, input and the declared tolerance give, whatever
\* the test cases before it were.
C15_CaseIndependentOfEarlierCases ==
    Returned =>
       last.ok = CaseCheck(last.b.out, last.tc.exp, last.tc.inp, atol0,
                           entry_point).ok

\* ---------------------------------------------------------------- C16
\* C16: while the supervisor inspects result and details the worker has
\* exited or has been ended, and no step changes the two lists.
C16_ReadsAfterWorkerEnded ==
    /\ [](spc = "collect" => wpc \in {"exited", "dead"})
    /\ [][spc = "collect" => result' = result /\ details' = details]_vars

\* the supervisor inspects the lists of a worker it had to kill while the
\* worker was in its loop
C16_Witness ==
    /\ spc = "collect"
    /\ run.killed
    /\ wpc = "dead"
    /\ details # <<>>
    /\ result = <<>>

\* ---------------------------------------------------------------- C17
\* min(5 s, sum of the reference times + 1 s), in units of 0.01 s
Deadline ==
    IF SumTimes(ref_time) + 100 < 500 THEN SumTimes(ref_time) + 100 ELSE 500

\* C17: from p.start() on, a worker is sent the terminate signal only
\* after a wait of the deadline plus 1 s that it outlived, and is killed
\* only after it was sent the terminate signal; when the wait ended
\* earlier the worker had ended and is sent neither signal.
C17_EscalationOrder ==
    spc # "idle" =>
       /\ run.terminated => clock >= Deadline + 100
       /\ run.killed => run.terminated
       /\ (spc # "join" /\ clock < Deadline + 100) =>
             ~Alive /\ ~run.terminated /\ ~run.killed

\* a worker that outlived the longest wait, 5 s + 1 s, has been sent the
\* terminate signal and then killed
C17_Witness ==
    /\ spc = "close"
    /\ SumTimes(ref_time) > 400
    /\ clock = 600
    /\ run.terminated /\ run.killed
    /\ wpc = "dead"

\* ---------------------------------------------------------------- C18
\* C18: once a worker is no longer alive, whether it exited or was ended,
\* its temporary directory is gone.
C18_ScratchGoneWhenWorkerEnded ==
    wpc \in {"exited", "dead"} => ~scratch

\* ---------------------------------------------------------------- C19
\* no candidate code has run in the worker
NothingRan == ~run.loaded /\ ~run.loadfailed /\ run.outcomes = <<>>

\* C19: candidate code is executed or called only inside the temporary
\* directory with rmtree, rmdir and chdir disabled; the three are enabled
\* before any candidate code has run or after the worker has recorded its
\* status, and are re-enabled by the worker only then.
C19_CandidateRunsOnlyGuarded ==
    /\ [](wpc \in {"exec", "loop"} => scratch /\ guarded)
    /\ []((Alive /\ ~guarded) =>
             \/ wpc \in {"spawned", "guard"} /\ NothingRan
             \/ wpc = "teardown" /\ run.recorded # "none")
    /\ [][(guarded /\ ~guarded') =>
             \/ wpc = "restore" /\ run.recorded # "none"
             \/ wpc' = "spawned"]_vars

\* the three operations are enabled again after two calls of the candidate
C19_Witness ==
    /\ wpc = "teardown"
    /\ ~guarded /\ scratch
    /\ Len(run.outcomes) = 2
    /\ run.recorded = SUCCESS

====
